---- MODULE Spec2Model ----
(***************************************************************************)
(* Model of the credential and resource cache refresher of                 *)
(* azure_app_exporter: the token updater loop, the applications updater    *)
(* loop and the HTTP read handlers sharing GlobalState.                    *)
(*                                                                         *)
(* Durations are in milliseconds, the unit of took_millis and              *)
(* next_update_in_millis in the source.                                    *)
(***************************************************************************)
EXTENDS Integers, Sequences, FiniteSets, TLC

VARIABLES
    azure_api_token,        \* GlobalState.azure_api_token (RwLock<String>)
    applications,           \* GlobalState.applications (RwLock<HashMap<id, app>>)
    guards,                 \* the guards on the two locks that are held, and by whom
    cache_refresh_interval, \* settings.applications.cache_refresh_interval
    token_pc,               \* position of azure_api_token_updater
    token_response,         \* response of the renewal request last received
    token_status,           \* status label of the last renewal
    token_seconds,          \* labels recorded in TOKEN_SECONDS since the iteration began
    token_sleep,            \* sleep_duration of the token loop
    ever_renewed,           \* some renewal has returned Ok
    apps_pc,                \* position of azure_applications_updater
    url,                    \* url of the page request in flight
    bearer,                 \* bearer token of the page request in flight
    response_value,         \* response.value of inner(): the accumulated resources
    parsed_applications,    \* what is left of the parsed_applications iterator
    pages,                  \* the page requests of this cycle and what each returned
    cache_before,           \* the cache as it was when the cycle began
    apps_status,            \* status label of the last fetch cycle
    applications_seconds,   \* labels recorded in APPLICATIONS_SECONDS in this iteration
    apps_sleep,             \* the sleep of the applications loop
    applications_cached,    \* applications.len() as the loop logs it
    http_response,          \* what the HTTP handler last returned
    malformed_received,     \* a page of this cycle carried an endDateTime that does not parse
    raw_credential,         \* a JSON object handed to PasswordCredential's Deserialize
    credential,             \* what deserializing raw_credential returned
    now,                    \* Utc::now() as remaining_seconds last read it
    remaining,              \* what remaining_seconds last returned
    big_cache,              \* a cache content handed to the body of get_all_applications
    from_swagger_ui,        \* from_swagger.is_some() of that request
    get_all_body,           \* the mapping it answered with
    settings,               \* GlobalState.settings as show_settings reads it
    settings_json,          \* what show_settings answered, serialized
    collection,             \* the pages of the remote collection once it is fixed
    steady,                 \* from now on every renewal and page request succeeds
    poisoned,               \* the RwLocks whose write guard was dropped by a panic
    found,                  \* the tasks whose expect("lock poisoned") has failed
    process,                \* "running" or "terminated"
    applications_enabled,   \* settings.applications.enabled
    token_age,              \* ms since the stored token was issued, at the last step
    token_valid_for,        \* ms the stored token was issued for
    replaced,               \* age and validity of the token replaced last, when replaced
    prompt                  \* no renewal took 5% or more of the validity of the token held

vars == <<azure_api_token, applications, guards, cache_refresh_interval, token_pc,
          token_response, token_status, token_seconds, token_sleep, ever_renewed,
          apps_pc, url, bearer, response_value, parsed_applications, pages,
          cache_before, apps_status, applications_seconds, apps_sleep,
          applications_cached, http_response, malformed_received, raw_credential,
          credential, now, remaining, big_cache, from_swagger_ui, get_all_body,
          settings, settings_json, collection, steady, poisoned, found, process,
          applications_enabled, token_age, token_valid_for, replaced, prompt>>

token_vars == <<token_pc, token_response, token_status, token_seconds, token_sleep,
                ever_renewed>>

apps_vars == <<apps_pc, url, bearer, response_value, parsed_applications, pages,
               cache_before, apps_status, applications_seconds, apps_sleep,
               applications_cached, malformed_received>>

\* What the deserialization of one credential and remaining_seconds work on.
types_vars == <<raw_credential, credential, now, remaining>>

\* What the body of get_all_applications works on when run on a cache of any size.
get_all_vars == <<big_cache, from_swagger_ui, get_all_body>>

\* What show_settings works on.
settings_vars == <<settings, settings_json>>

\* The variables of the operations that are modelled on their own.
\* The remote collection behind the server and whether it has settled.
steady_vars == <<collection, steady>>

\* The poisoning of the two locks and what became of the process.
fault_vars == <<poisoned, found, process>>

\* The age of the token, for the runs in which the time a renewal takes is counted.
clock_vars == <<token_age, token_valid_for, replaced, prompt>>

\* The variables of the operations modelled on their own, but for the clock.
untimed_vars == <<types_vars, get_all_vars, settings_vars, steady_vars, fault_vars,
                  applications_enabled>>

pure_vars == <<untimed_vars, clock_vars>>

----------------------------------------------------------------------------
(* Bounds and the values the environment can supply                         *)

\* Largest number of page requests the server lets one fetch make.
MaxPages == 2

None == "None"

\* Option::None of an @odata.nextLink, and of the url when no request is in flight.
NoLink == <<"None">>

\* access_token values the identity provider can return; "" is also String::default().
AccessTokens == {"", "t1", "t2"}

\* expires_in values (seconds) the identity provider can return.
ExpiresIns == {0, 33, 1000}

\* HTTP status codes of a response.
Statuses == {200, 500}

\* Response bodies that do not deserialize into the expected type.
Undecodable == [undecodable |-> TRUE]

\* Instants and lengths of time are in milliseconds. A well-formed endDateTime
\* string is the date and time it spells out (as milliseconds since the epoch when
\* read as UTC) and the UTC offset it ends with; "Z" is the offset 0.
LocalDateTimes == {3600000, 3600500, 3601000, 7200000}

UtcOffsets == {-3600000, 0, 3600000}

DateTimeStrings == [local : LocalDateTimes, offset : UtcOffsets]

\* A string that is no date and time, JSON null, and the field left out.
MalformedString == [malformed |-> TRUE]

JsonNull == [null |-> TRUE]

Absent == [absent |-> TRUE]

RawEndDateTimes == DateTimeStrings \cup {MalformedString, JsonNull, Absent}

\* JSON objects of a password credential.
RawCredentials == [key_id : {"k"}, end_date_time : RawEndDateTimes]

\* Values Utc::now() can have when remaining_seconds is called.
Nows == {3598500, 3599500, 3600000, 3600500, 3601000, 3601500, 3602000}

\* Option<DateTime<Utc>>
NoneDateTime == [none |-> TRUE]

Some(t) == [some |-> t]

\* PasswordCredential values.
PasswordCredentials ==
    [key_id : {"k"}, end_date_time : {NoneDateTime} \cup { Some(t) : t \in LocalDateTimes }]

ExpiringCredential == [key_id |-> "k", end_date_time |-> Some(3600000)]

LastingCredential == [key_id |-> "k", end_date_time |-> NoneDateTime]

\* AzureApplication values (id, appId, passwordCredentials).
Applications ==
    { [id |-> "a", app_id |-> "x", password_credentials |-> <<>>],
      [id |-> "a", app_id |-> "y", password_credentials |-> <<ExpiringCredential>>],
      [id |-> "b", app_id |-> "x", password_credentials |-> <<LastingCredential>>] }

ApplicationIds == { app.id : app \in Applications }

\* The `value` arrays a decoded page can carry.
PageValues ==
    { <<>>,
      << [id |-> "a", app_id |-> "x", password_credentials |-> <<>>] >>,
      << [id |-> "b", app_id |-> "x", password_credentials |-> <<LastingCredential>>] >>,
      << [id |-> "a", app_id |-> "x", password_credentials |-> <<>>],
         [id |-> "a", app_id |-> "y", password_credentials |-> <<ExpiringCredential>>] >> }

\* JSON objects of an application: the three that decode to Applications, one whose
\* credential has an endDateTime that does not parse and one whose credential has
\* no endDateTime field.
RawExpiring == [key_id |-> "k", end_date_time |-> [local |-> 3600000, offset |-> 0]]

RawLasting == [key_id |-> "k", end_date_time |-> JsonNull]

RawMalformed == [key_id |-> "k", end_date_time |-> MalformedString]

RawFieldless == [key_id |-> "k", end_date_time |-> Absent]

\* The `value` arrays of a page as the server sends them.
RawPageValues ==
    { <<>>,
      << [id |-> "a", app_id |-> "x", password_credentials |-> <<>>] >>,
      << [id |-> "b", app_id |-> "x", password_credentials |-> <<RawLasting>>] >>,
      << [id |-> "a", app_id |-> "x", password_credentials |-> <<>>],
         [id |-> "a", app_id |-> "y", password_credentials |-> <<RawExpiring>>] >>,
      << [id |-> "a", app_id |-> "x", password_credentials |-> <<>>],
         [id |-> "b", app_id |-> "x", password_credentials |-> <<RawMalformed>>] >>,
      << [id |-> "b", app_id |-> "x", password_credentials |-> <<RawFieldless>>] >> }

\* The `value` arrays a response of a status other than success carries.
ErrorPageValues == { <<>> }

\* @odata.nextLink values: the link to the page after the n-th.
LinkAfter(n) == <<"link", n>>

NextLinks == { LinkAfter(n) : n \in 1..MaxPages }

\* settings.applications.url with the $top and $select query.
StartUrl == <<"start">>

\* Values of settings.applications.cache_refresh_interval (the default is 15 minutes).
RefreshIntervals == {900000}

----------------------------------------------------------------------------
(* Types of the source                                                      *)

AuthToken == [expires_in : ExpiresIns, access_token : AccessTokens]

IsSuccess(status) == status \in 200..299

\* The bodies a renewal response of a status other than success carries.
ErrorTokenBodies == {Undecodable, [expires_in |-> 1000, access_token |-> "t1"]}

AzureApplications == [next_link : NextLinks \cup {NoLink}, value : PageValues]

\* What awaiting send() and json() of the renewal request can produce. A response
\* of a status other than success carries an error document or one token.
TokenResponses ==
    { [kind |-> "transport"], [kind |-> "timeout"] }
    \cup [kind : {"http"}, status : {status \in Statuses : IsSuccess(status)},
          body : AuthToken \cup {Undecodable}]
    \cup [kind : {"http"}, status : {status \in Statuses : ~IsSuccess(status)},
          body : ErrorTokenBodies]

\* JSON bodies of the shape of an AzureApplications.
RawAzureApplications == [next_link : NextLinks \cup {NoLink}, value : RawPageValues]


\* What awaiting send() and json() of a page request can produce. A response of a
\* status other than success carries no application.
PageResponses ==
    { [kind |-> "transport"], [kind |-> "timeout"] }
    \cup [kind : {"http"}, status : {status \in Statuses : IsSuccess(status)},
          body : RawAzureApplications \cup {Undecodable}]
    \cup [kind : {"http"}, status : {status \in Statuses : ~IsSuccess(status)},
          body : {Undecodable} \cup [next_link : {NoLink}, value : ErrorPageValues]]

NoResponse == [kind |-> "none"]

\* The guards of the two RwLocks of GlobalState that a task can hold.
Guards ==
    [task : {"azure_api_token_updater", "azure_applications_updater"},
     lock : {"azure_api_token", "applications"},
     mode : {"read", "write"}]

\* The guard of `global_state.azure_api_token.read()` in get_applications.
TokenReadGuard ==
    [task |-> "azure_applications_updater", lock |-> "azure_api_token", mode |-> "read"]

\* The guard of `global_state.applications.write()` in the applications updater.
CacheWriteGuard ==
    [task |-> "azure_applications_updater", lock |-> "applications", mode |-> "write"]

\* RwLock: read() waits while a write guard is out, write() while any guard is.
WriteLocked(lock) == \E guard \in guards : guard.lock = lock /\ guard.mode = "write"

TokenReadable == ~WriteLocked("azure_api_token")

TokenFree == \A guard \in guards : guard.lock # "azure_api_token"

CacheFree == \A guard \in guards : guard.lock # "applications"

NoHttpResponse == [op |-> "none"]

EmptyMap == [k \in {} |-> None]

\* A credential not yet handed over, deserialized or asked for its remaining seconds.
Unset == [unset |-> TRUE]

\* Result::Ok and Result::Err
Ok(value) == [ok |-> TRUE, value |-> value]

Err(error) == [ok |-> FALSE, error |-> error]

----------------------------------------------------------------------------
(* types/applications.rs                                                    *)

\* Faulty variant of parse_date_time: a string that does not parse is taken as no
\* expiry.
parse_date_time_lenient(json) ==
    IF json = JsonNull THEN Ok(NoneDateTime)
    ELSE IF json = MalformedString THEN Ok(NoneDateTime)
    ELSE Ok(Some(json.local))

\* parse_date_time: null is None; a string goes through
\* NaiveDateTime::parse_from_str(_, "%+"), which reads the date and the time and
\* leaves the offset aside, and and_utc() takes what was read as UTC.
parse_date_time(json) ==
    IF json = JsonNull THEN Ok(NoneDateTime)
    ELSE IF json = MalformedString THEN Err("invalid time")
    ELSE Ok(Some(json.local))

\* Deserialize of PasswordCredential: end_date_time has deserialize_with and no
\* default, so an object without the field is an error.
DeserializePasswordCredential(object) ==
    IF object.end_date_time = Absent
      THEN Err("missing field")
      ELSE LET end_date_time == parse_date_time(object.end_date_time)
           IN  IF end_date_time.ok
                 THEN Ok([key_id |-> object.key_id, end_date_time |-> end_date_time.value])
                 ELSE end_date_time

\* Deserialize of AzureApplication
DeserializeAzureApplication(object) ==
    LET credentials ==
            [i \in 1..Len(object.password_credentials) |->
                DeserializePasswordCredential(object.password_credentials[i])]
    IN  IF \A i \in DOMAIN credentials : credentials[i].ok
          THEN Ok([id |-> object.id, app_id |-> object.app_id,
                   password_credentials |->
                       [i \in DOMAIN credentials |-> credentials[i].value]])
          ELSE Err("invalid application")

\* Deserialize of AzureApplications
DeserializeAzureApplications(body) ==
    IF body = Undecodable
      THEN Err("invalid body")
      ELSE LET value == [i \in 1..Len(body.value) |->
                            DeserializeAzureApplication(body.value[i])]
           IN  IF \A i \in DOMAIN value : value[i].ok
                 THEN Ok([next_link |-> body.next_link,
                          value |-> [i \in DOMAIN value |-> value[i].value]])
                 ELSE Err("invalid application")

\* f64::INFINITY and the other values of an f64 that arise, in seconds.
Infinity == [infinite |-> TRUE]

F64(secs) == [secs |-> secs]

\* TimeDelta::num_seconds: the whole seconds of a length of time, towards zero.
NumSeconds(millis) ==
    LET secs == millis \div 1000
        subsec == millis % 1000
    IN  IF secs < 0 /\ subsec > 0 THEN secs + 1 ELSE secs

\* PasswordCredential::remaining_seconds
RemainingSeconds(password_credential, utc_now) ==
    IF password_credential.end_date_time = NoneDateTime
      THEN Infinity
      ELSE F64(NumSeconds(password_credential.end_date_time.some - utc_now))

----------------------------------------------------------------------------
(* Durations                                                                *)

\* Duration::from_secs(30) of the Err arm, in seconds.
FailureIntervalSecs == 30

\* Duration::from_secs(5) of the wait for the first token, in seconds.
TokenPollSecs == 5

\* take(50) of get_all_applications.
SwaggerLimit == 50

DurationFromSecs(secs) == secs * 1000

\* Faulty variant of MulF64: the factor is lost.
MulF64Identity(dur) == dur

\* Duration::mul_f64(0.9), to the millisecond.
MulF64(dur) == (dur * 9) \div 10

\* The Ok arm of the match in azure_api_token_updater.
SuccessSleep(expires_in) == MulF64(DurationFromSecs(expires_in))

----------------------------------------------------------------------------
(* azure_api_token_updater                                                  *)

\* `.send().await?.json().await?`: Err for a transport error or a body that is not
\* an AuthToken; the status code is not looked at.
TokenResultIsOk(resp) == resp.kind = "http" /\ resp.body # Undecodable

\* GlobalState::new() and the two tasks just spawned.
ProgramStart ==
    /\ azure_api_token = ""
    /\ applications = EmptyMap
    /\ guards = {}
    /\ cache_refresh_interval \in RefreshIntervals
    /\ token_pc = "start"
    /\ token_response = NoResponse
    /\ token_status = None
    /\ token_seconds = <<>>
    /\ token_sleep = 0
    /\ ever_renewed = FALSE
    /\ apps_pc = "gate"
    /\ url = NoLink
    /\ bearer = None
    /\ response_value = <<>>
    /\ parsed_applications = <<>>
    /\ pages = <<>>
    /\ cache_before = EmptyMap
    /\ apps_status = None
    /\ applications_seconds = <<>>
    /\ apps_sleep = 0
    /\ applications_cached = 0
    /\ http_response = NoHttpResponse
    /\ malformed_received = FALSE

\* No credential, cache content or settings has been handed to the operations that
\* are modelled on their own.
TypesIdle ==
    /\ raw_credential = Unset
    /\ credential = Unset
    /\ now = 0
    /\ remaining = Unset

GetAllIdle ==
    /\ big_cache = Unset
    /\ from_swagger_ui = FALSE
    /\ get_all_body = Unset

SettingsIdle ==
    /\ settings = Unset
    /\ settings_json = Unset

\* The server answers as it likes and no collection is fixed.
Unsettled ==
    /\ collection = Unset
    /\ steady = FALSE

\* No token has an age.
Untimed ==
    /\ token_age = 0
    /\ token_valid_for = 0
    /\ replaced = Unset
    /\ prompt = TRUE

\* No lock is poisoned, the process runs and no time is counted.
Sound ==
    /\ poisoned = {}
    /\ found = {}
    /\ process = "running"
    /\ Untimed

\* settings.applications.enabled is true, its default, and main has spawned the tasks.
Init ==
    /\ ProgramStart
    /\ TypesIdle
    /\ GetAllIdle
    /\ SettingsIdle
    /\ Unsettled
    /\ Sound
    /\ applications_enabled = TRUE

\* Faulty variant of TokenStart: the request is sent without being awaited and the
\* loop takes the sleep decision of a success at once.
TokenStartDetached ==
    /\ token_pc = "start"
    /\ token_pc' = "sleep"
    /\ token_status' = "success"
    /\ token_seconds' = Append(token_seconds, "success")
    /\ token_sleep' = SuccessSleep(0)
    /\ UNCHANGED <<token_response, ever_renewed>>
    /\ UNCHANGED <<azure_api_token, applications, guards, cache_refresh_interval,
                   http_response>>
    /\ UNCHANGED pure_vars
    /\ UNCHANGED apps_vars

\* What TokenStart does to the state of the program.
TokenStartStep ==
    /\ token_pc = "start"
    /\ token_pc' = "await"
    /\ UNCHANGED <<token_response, token_status, token_seconds, token_sleep,
                   ever_renewed>>
    /\ UNCHANGED <<azure_api_token, applications, guards, cache_refresh_interval,
                   http_response>>
    /\ UNCHANGED apps_vars

\* The task is spawned, enters the loop and inner() sends the renewal request.
TokenStart ==
    /\ TokenStartStep
    /\ UNCHANGED pure_vars

\* Faulty variant of TokenReceive: the token is reset when the renewal fails.
TokenReceiveClobbers ==
    /\ token_pc = "await"
    /\ \E resp \in TokenResponses :
        /\ token_response' = resp
        /\ IF TokenResultIsOk(resp)
             THEN /\ TokenFree
                  /\ azure_api_token' = resp.body.access_token
                  /\ token_sleep' = SuccessSleep(resp.body.expires_in)
                  /\ token_status' = "success"
                  /\ token_seconds' = Append(token_seconds, "success")
                  /\ ever_renewed' = TRUE
             ELSE /\ azure_api_token' = ""
                  /\ token_sleep' = DurationFromSecs(FailureIntervalSecs)
                  /\ token_status' = "fail"
                  /\ token_seconds' = Append(token_seconds, "fail")
                  /\ ever_renewed' = ever_renewed
    /\ token_pc' = "sleep"
    /\ UNCHANGED <<applications, guards, cache_refresh_interval, http_response>>
    /\ UNCHANGED pure_vars
    /\ UNCHANGED <<apps_pc, url, bearer, response_value, parsed_applications, pages,
                   cache_before, apps_status, applications_seconds, apps_sleep,
                   applications_cached, malformed_received>>

\* What the renewal request does to the state of the program when it completes
\* with resp: inner() returns, the match picks sleep_duration and status, and the
\* loop goes to sleep.
TokenReceiveResponse(resp) ==
    /\ token_pc = "await"
    /\ token_response' = resp
    /\ IF TokenResultIsOk(resp)
         THEN /\ TokenFree
              /\ azure_api_token' = resp.body.access_token
              /\ token_sleep' = SuccessSleep(resp.body.expires_in)
              /\ token_status' = "success"
              /\ token_seconds' = Append(token_seconds, "success")
              /\ ever_renewed' = TRUE
         ELSE /\ azure_api_token' = azure_api_token
              /\ token_sleep' = DurationFromSecs(FailureIntervalSecs)
              /\ token_status' = "fail"
              /\ token_seconds' = Append(token_seconds, "fail")
              /\ ever_renewed' = ever_renewed
    /\ token_pc' = "sleep"
    /\ UNCHANGED <<applications, guards, cache_refresh_interval, http_response>>
    /\ UNCHANGED apps_vars

\* The renewal request completes.
TokenReceive ==
    /\ \E resp \in TokenResponses : TokenReceiveResponse(resp)
    /\ UNCHANGED pure_vars

\* Faulty variant of TokenWake: the loop gives up after a failed renewal.
TokenWakeGivesUp ==
    /\ token_pc = "sleep"
    /\ token_status # "fail"
    /\ token_pc' = "await"
    /\ token_response' = NoResponse
    /\ token_status' = None
    /\ token_seconds' = <<>>
    /\ token_sleep' = 0
    /\ UNCHANGED ever_renewed
    /\ UNCHANGED <<azure_api_token, applications, guards, cache_refresh_interval,
                   http_response>>
    /\ UNCHANGED pure_vars
    /\ UNCHANGED <<apps_pc, url, bearer, response_value, parsed_applications, pages,
                   cache_before, apps_status, applications_seconds, apps_sleep,
                   applications_cached, malformed_received>>

\* What TokenWake does to the state of the program.
TokenWakeStep ==
    /\ token_pc = "sleep"
    /\ token_pc' = "await"
    /\ token_response' = NoResponse
    /\ token_status' = None
    /\ token_seconds' = <<>>
    /\ token_sleep' = 0
    /\ UNCHANGED ever_renewed
    /\ UNCHANGED <<azure_api_token, applications, guards, cache_refresh_interval,
                   http_response>>
    /\ UNCHANGED apps_vars

\* The sleep ends and the next iteration sends the next renewal request.
TokenWake ==
    /\ TokenWakeStep
    /\ UNCHANGED pure_vars

----------------------------------------------------------------------------
(* azure_applications_updater                                               *)

\* `.send().await?.json::<AzureApplications>().await`: Err for a transport error or a
\* body that is not an AzureApplications; the status code is not looked at.
PageResultIsOk(resp) == resp.kind = "http" /\ DeserializeAzureApplications(resp.body).ok

\* The AzureApplications a response deserializes into.
Page(resp) == DeserializeAzureApplications(resp.body).value

\* Some credential of the response has an endDateTime that does not parse.
CarriesMalformed(resp) ==
    /\ resp.kind = "http"
    /\ resp.body # Undecodable
    /\ \E i \in DOMAIN resp.body.value :
          \E j \in DOMAIN resp.body.value[i].password_credentials :
             resp.body.value[i].password_credentials[j].end_date_time = MalformedString

\* The remote collection is a chain of at most MaxPages pages: the n-th page links
\* to the page after it or, the last one, to nothing.
ServerResponses ==
    { resp \in PageResponses :
        PageResultIsOk(resp) =>
            \/ Page(resp).next_link = NoLink
            \/ /\ Len(pages) + 1 < MaxPages
               /\ Page(resp).next_link = LinkAfter(Len(pages) + 1) }

\* A server whose chain does not end: past the chain of MaxPages pages every page is
\* empty and carries one more link.
EndlessServerResponses ==
    { resp \in PageResponses :
        PageResultIsOk(resp) =>
            \/ Page(resp).next_link = NoLink
            \/ /\ Len(pages) + 1 < MaxPages
               /\ Page(resp).next_link = LinkAfter(Len(pages) + 1)
            \/ /\ Len(pages) + 1 >= MaxPages
               /\ Page(resp).next_link = LinkAfter(MaxPages)
               /\ Page(resp).value = <<>> }

\* Faulty variant of Insert: an entry already stored under the key is kept.
InsertKeepsFirst(map, key, val) ==
    [k \in (DOMAIN map) \cup {key} |-> IF k \in DOMAIN map THEN map[k] ELSE val]

\* HashMap::insert
Insert(map, key, val) ==
    [k \in (DOMAIN map) \cup {key} |-> IF k = key THEN val ELSE map[k]]

\* Faulty variant of CycleSleep: a failed cycle is retried after the token loop's
\* failure interval.
CycleSleepBackoff(result_is_ok) ==
    IF result_is_ok THEN cache_refresh_interval ELSE DurationFromSecs(FailureIntervalSecs)

\* The sleep at the end of an iteration of the loop.
CycleSleep(result_is_ok) == cache_refresh_interval

\* Faulty variant of AppsGate: the loop does not wait for the token.
AppsGateNoWait ==
    /\ apps_pc = "gate"
    /\ apps_pc' = "fetch"
    /\ apps_sleep' = 0
    /\ UNCHANGED <<url, bearer, response_value, parsed_applications, pages,
                   cache_before, apps_status, applications_seconds,
                   applications_cached, malformed_received>>
    /\ UNCHANGED <<azure_api_token, applications, guards, cache_refresh_interval,
                   http_response>>
    /\ UNCHANGED pure_vars
    /\ UNCHANGED <<token_pc, token_response, token_status, token_seconds, token_sleep,
                   ever_renewed>>

\* Faulty variant of AppsGate: a turn of the wait that finds no token is recorded in
\* the histogram as a failed cycle.
AppsGateObserved ==
    /\ apps_pc = "gate"
    /\ TokenReadable
    /\ IF azure_api_token = ""
         THEN /\ apps_pc' = "gate_sleep"
              /\ apps_sleep' = DurationFromSecs(TokenPollSecs)
              /\ applications_seconds' = Append(applications_seconds, "fail")
         ELSE /\ apps_pc' = "fetch"
              /\ apps_sleep' = 0
              /\ applications_seconds' = <<>>
    /\ UNCHANGED <<url, bearer, response_value, parsed_applications, pages, cache_before,
                   apps_status, applications_cached, malformed_received>>
    /\ UNCHANGED <<azure_api_token, applications, guards, cache_refresh_interval,
                   http_response>>
    /\ UNCHANGED pure_vars
    /\ UNCHANGED token_vars

\* `while token.read().is_empty() { sleep(5s) }`: one test of the condition.
AppsGate ==
    /\ apps_pc = "gate"
    /\ TokenReadable
    /\ IF azure_api_token = ""
         THEN /\ apps_pc' = "gate_sleep"
              /\ apps_sleep' = DurationFromSecs(TokenPollSecs)
         ELSE /\ apps_pc' = "fetch"
              /\ apps_sleep' = 0
    /\ UNCHANGED <<url, bearer, response_value, parsed_applications, pages,
                   cache_before, apps_status, applications_seconds,
                   applications_cached, malformed_received>>
    /\ UNCHANGED <<azure_api_token, applications, guards, cache_refresh_interval,
                   http_response>>
    /\ UNCHANGED pure_vars
    /\ UNCHANGED token_vars

\* The 5 second sleep of the wait ends.
AppsGateWake ==
    /\ apps_pc = "gate_sleep"
    /\ apps_pc' = "gate"
    /\ apps_sleep' = 0
    /\ UNCHANGED <<url, bearer, response_value, parsed_applications, pages,
                   cache_before, apps_status, applications_seconds,
                   applications_cached, malformed_received>>
    /\ UNCHANGED <<azure_api_token, applications, guards, cache_refresh_interval,
                   http_response>>
    /\ UNCHANGED pure_vars
    /\ UNCHANGED token_vars

\* Faulty variant of AppsFetch: the read guard on the token is kept after the
\* request is sent.
AppsFetchKeepsGuard ==
    /\ apps_pc = "fetch"
    /\ TokenReadable
    /\ apps_pc' = "await"
    /\ url' = StartUrl
    /\ bearer' = azure_api_token
    /\ guards' = guards \cup {TokenReadGuard}
    /\ response_value' = <<>>
    /\ pages' = <<>>
    /\ cache_before' = applications
    /\ malformed_received' = FALSE
    /\ UNCHANGED <<parsed_applications, apps_status, applications_seconds, apps_sleep,
                   applications_cached>>
    /\ UNCHANGED <<azure_api_token, applications, cache_refresh_interval, http_response>>
    /\ UNCHANGED pure_vars
    /\ UNCHANGED token_vars

\* Faulty variant of AppsFetch: a cycle does not begin while a renewal is in flight.
AppsFetchAfterRenewal ==
    /\ apps_pc = "fetch"
    /\ token_pc # "await"
    /\ TokenReadable
    /\ apps_pc' = "await"
    /\ url' = StartUrl
    /\ bearer' = azure_api_token
    /\ response_value' = <<>>
    /\ pages' = <<>>
    /\ cache_before' = applications
    /\ malformed_received' = FALSE
    /\ UNCHANGED <<parsed_applications, apps_status, applications_seconds, apps_sleep,
                   applications_cached>>
    /\ UNCHANGED <<azure_api_token, applications, guards, cache_refresh_interval,
                   http_response>>
    /\ UNCHANGED pure_vars
    /\ UNCHANGED token_vars

\* An iteration of the loop begins: inner() calls get_applications on the start url,
\* which reads the token for bearer_auth, drops the read guard and sends the request.
AppsFetch ==
    /\ apps_pc = "fetch"
    /\ TokenReadable
    /\ apps_pc' = "await"
    /\ url' = StartUrl
    /\ bearer' = azure_api_token
    /\ response_value' = <<>>
    /\ pages' = <<>>
    /\ cache_before' = applications
    /\ malformed_received' = FALSE
    /\ UNCHANGED <<parsed_applications, apps_status, applications_seconds, apps_sleep,
                   applications_cached>>
    /\ UNCHANGED <<azure_api_token, applications, guards, cache_refresh_interval,
                   http_response>>
    /\ UNCHANGED pure_vars
    /\ UNCHANGED token_vars

\* Faulty variant of AppsReceiveErr: a failed page request starts the fetch over at
\* once instead of ending the cycle.
AppsReceiveErrRestarts(resp) ==
    /\ ~PageResultIsOk(resp)
    /\ apps_pc' = "fetch"
    /\ malformed_received' = (malformed_received \/ CarriesMalformed(resp))
    /\ UNCHANGED <<url, bearer, response_value, parsed_applications, pages, cache_before>>
    /\ UNCHANGED <<apps_status, applications_seconds, apps_sleep, applications_cached>>
    /\ UNCHANGED <<applications, guards>>

\* Faulty variant of AppsReceiveErr: what was fetched before the failing page is
\* stored in the cache.
AppsReceiveErrCommits(resp) ==
    /\ ~PageResultIsOk(resp)
    /\ apps_pc' = "sleep"
    /\ apps_status' = "fail"
    /\ applications_seconds' = Append(applications_seconds, "fail")
    /\ apps_sleep' = CycleSleep(FALSE)
    /\ applications' = [id \in { response_value[i].id : i \in DOMAIN response_value } |->
                          response_value[CHOOSE i \in DOMAIN response_value :
                                           response_value[i].id = id]]
    /\ applications_cached' = Cardinality(DOMAIN applications')
    /\ malformed_received' = (malformed_received \/ CarriesMalformed(resp))
    /\ UNCHANGED <<url, bearer, response_value, parsed_applications, pages, cache_before>>
    /\ UNCHANGED guards

\* A page request fails: `?` returns the error from inner(), and the loop reads the
\* size of the cache, records "fail" and goes to sleep.
AppsReceiveErr(resp) ==
    /\ ~PageResultIsOk(resp)
    /\ apps_pc' = "sleep"
    /\ apps_status' = "fail"
    /\ applications_seconds' = Append(applications_seconds, "fail")
    /\ apps_sleep' = CycleSleep(FALSE)
    /\ applications_cached' = Cardinality(DOMAIN applications)
    /\ malformed_received' = (malformed_received \/ CarriesMalformed(resp))
    /\ UNCHANGED <<url, bearer, response_value, parsed_applications, pages, cache_before>>
    /\ UNCHANGED <<applications, guards>>

\* Faulty variant of AppsReceivePage: response.value is replaced by the value of the
\* page that arrived instead of growing by it.
AppsReceivePageReplaces(resp) ==
    /\ PageResultIsOk(resp)
    /\ response_value' = Page(resp).value
    /\ pages' = Append(pages, [url |-> url, status |-> resp.status,
                               value |-> Page(resp).value,
                               next_link |-> Page(resp).next_link])
    /\ malformed_received' = (malformed_received \/ CarriesMalformed(resp))
    /\ IF Page(resp).next_link # NoLink
         THEN /\ TokenReadable
              /\ apps_pc' = "await"
              /\ url' = Page(resp).next_link
              /\ bearer' = azure_api_token
              /\ UNCHANGED <<parsed_applications, guards>>
         ELSE /\ apps_pc' = "clear"
              /\ parsed_applications' = response_value'
              /\ CacheFree
              /\ guards' = guards \cup {CacheWriteGuard}
              /\ UNCHANGED <<url, bearer>>
    /\ UNCHANGED <<cache_before, apps_status, applications_seconds, apps_sleep,
                   applications_cached, applications>>

\* A page arrives: its value is appended to response.value; with a next link the
\* next request is sent at once, without one the write guard of the cache is taken.
\* `pages` records the first MaxPages pages of the cycle.
AppsReceivePage(resp) ==
    /\ PageResultIsOk(resp)
    /\ response_value' = response_value \o Page(resp).value
    /\ pages' = IF Len(pages) < MaxPages
                  THEN Append(pages, [url |-> url, status |-> resp.status,
                                      value |-> Page(resp).value,
                                      next_link |-> Page(resp).next_link])
                  ELSE pages
    /\ malformed_received' = (malformed_received \/ CarriesMalformed(resp))
    /\ IF Page(resp).next_link # NoLink
         THEN /\ TokenReadable
              /\ apps_pc' = "await"
              /\ url' = Page(resp).next_link
              /\ bearer' = azure_api_token
              /\ UNCHANGED <<parsed_applications, guards>>
         ELSE /\ apps_pc' = "clear"
              /\ parsed_applications' = response_value'
              /\ CacheFree
              /\ guards' = guards \cup {CacheWriteGuard}
              /\ UNCHANGED <<url, bearer>>
    /\ UNCHANGED <<cache_before, apps_status, applications_seconds, apps_sleep,
                   applications_cached, applications>>

AppsReceiveFrom(server) ==
    /\ apps_pc = "await"
    /\ \E resp \in server : AppsReceiveErr(resp) \/ AppsReceivePage(resp)
    /\ UNCHANGED <<azure_api_token, cache_refresh_interval, http_response>>
    /\ UNCHANGED pure_vars
    /\ UNCHANGED token_vars

\* The request in flight is answered by the server of the finite chain.
AppsReceive == AppsReceiveFrom(ServerResponses)

\* The request in flight is answered by the server whose chain does not end.
AppsReceiveEndless == AppsReceiveFrom(EndlessServerResponses)

\* Faulty variant of AppsClear: the old entries are kept.
AppsClearSkipped ==
    /\ apps_pc = "clear"
    /\ apps_pc' = "extend"
    /\ UNCHANGED applications
    /\ UNCHANGED <<url, bearer, response_value, parsed_applications, pages,
                   cache_before, apps_status, applications_seconds, apps_sleep,
                   applications_cached, malformed_received>>
    /\ UNCHANGED <<azure_api_token, guards, cache_refresh_interval, http_response>>
    /\ UNCHANGED pure_vars
    /\ UNCHANGED <<token_pc, token_response, token_status, token_seconds, token_sleep,
                   ever_renewed>>

\* applications.clear()
AppsClear ==
    /\ apps_pc = "clear"
    /\ apps_pc' = "extend"
    /\ applications' = EmptyMap
    /\ UNCHANGED <<url, bearer, response_value, parsed_applications, pages,
                   cache_before, apps_status, applications_seconds, apps_sleep,
                   applications_cached, malformed_received>>
    /\ UNCHANGED <<azure_api_token, guards, cache_refresh_interval, http_response>>
    /\ UNCHANGED pure_vars
    /\ UNCHANGED token_vars

\* Faulty variant of AppsExtend: the key of an entry is the app_id of the application.
AppsExtendByAppId ==
    /\ apps_pc = "extend"
    /\ parsed_applications # <<>>
    /\ applications' = Insert(applications, Head(parsed_applications).app_id,
                              Head(parsed_applications))
    /\ parsed_applications' = Tail(parsed_applications)
    /\ UNCHANGED <<apps_pc, url, bearer, response_value, pages, cache_before,
                   apps_status, applications_seconds, apps_sleep, applications_cached,
                   malformed_received>>
    /\ UNCHANGED <<azure_api_token, guards, cache_refresh_interval, http_response>>
    /\ UNCHANGED pure_vars
    /\ UNCHANGED token_vars

\* applications.extend(parsed_applications): one insert of (application.id, application).
AppsExtend ==
    /\ apps_pc = "extend"
    /\ parsed_applications # <<>>
    /\ applications' = Insert(applications, Head(parsed_applications).id,
                              Head(parsed_applications))
    /\ parsed_applications' = Tail(parsed_applications)
    /\ UNCHANGED <<apps_pc, url, bearer, response_value, pages, cache_before,
                   apps_status, applications_seconds, apps_sleep, applications_cached,
                   malformed_received>>
    /\ UNCHANGED <<azure_api_token, guards, cache_refresh_interval, http_response>>
    /\ UNCHANGED pure_vars
    /\ UNCHANGED token_vars

\* Faulty variant of AppsReturnOk: the write guard outlives inner() and is held
\* through the sleep.
AppsReturnOkKeepsGuard ==
    /\ apps_pc = "extend"
    /\ parsed_applications = <<>>
    /\ UNCHANGED guards
    /\ apps_pc' = "sleep"
    /\ apps_status' = "success"
    /\ applications_seconds' = Append(applications_seconds, "success")
    /\ apps_sleep' = CycleSleep(TRUE)
    /\ applications_cached' = Cardinality(DOMAIN applications)
    /\ UNCHANGED <<url, bearer, response_value, parsed_applications, pages, cache_before,
                   malformed_received>>
    /\ UNCHANGED <<azure_api_token, applications, cache_refresh_interval, http_response>>
    /\ UNCHANGED pure_vars
    /\ UNCHANGED token_vars

\* inner() returns Ok and drops the write guard; the loop reads the size of the
\* cache, records "success" and goes to sleep.
AppsReturnOk ==
    /\ apps_pc = "extend"
    /\ parsed_applications = <<>>
    /\ guards' = guards \ {CacheWriteGuard}
    /\ apps_pc' = "sleep"
    /\ apps_status' = "success"
    /\ applications_seconds' = Append(applications_seconds, "success")
    /\ apps_sleep' = CycleSleep(TRUE)
    /\ applications_cached' = Cardinality(DOMAIN applications)
    /\ UNCHANGED <<url, bearer, response_value, parsed_applications, pages, cache_before,
                   malformed_received>>
    /\ UNCHANGED <<azure_api_token, applications, cache_refresh_interval, http_response>>
    /\ UNCHANGED pure_vars
    /\ UNCHANGED token_vars

\* The sleep ends and the loop starts over.
AppsWake ==
    /\ apps_pc = "sleep"
    /\ apps_pc' = "fetch"
    /\ apps_status' = None
    /\ applications_seconds' = <<>>
    /\ apps_sleep' = 0
    /\ applications_cached' = 0
    /\ url' = NoLink
    /\ bearer' = None
    /\ response_value' = <<>>
    /\ pages' = <<>>
    /\ cache_before' = EmptyMap
    /\ malformed_received' = FALSE
    /\ UNCHANGED parsed_applications
    /\ UNCHANGED <<azure_api_token, applications, guards, cache_refresh_interval,
                   http_response>>
    /\ UNCHANGED pure_vars
    /\ UNCHANGED token_vars

----------------------------------------------------------------------------
(* routes/applications.rs                                                   *)

Min(a, b) == IF a < b THEN a ELSE b

\* Faulty variant of CacheReadable: the handlers read without the lock.
CacheReadableUnlocked == TRUE

\* A read guard of the cache can be taken.
CacheReadable == ~WriteLocked("applications")

\* A fetch cycle is between clear() and the end of extend().
ReplaceInProgress == apps_pc \in {"clear", "extend"}

\* Faulty variant of Truncations: take() is left out and the whole map collected.
TruncationsUnlimited(map) == { map }

\* applications.iter().take(50).collect(): the iteration order of a HashMap is
\* arbitrary, so the result is the map without any choice of the entries in excess
\* of 50, and the whole map if there are no more than 50.
RECURSIVE Truncations(_)
Truncations(map) ==
    IF Cardinality(DOMAIN map) <= SwaggerLimit
      THEN { map }
      ELSE UNION { Truncations([k \in (DOMAIN map) \ {dropped} |-> map[k]]) :
                     dropped \in DOMAIN map }

\* axum's Json(value): the value, serialized as the body of the answer.
Json(value) == [json |-> value]

\* The body of get_all_applications on the map behind the read guard.
GetAllBodies(map, from_swagger) ==
    IF from_swagger THEN Truncations(map) ELSE { map }

\* The mapping id -> application a sequence of applications denotes: of several
\* applications with one id, the last.
LastIndexOf(seq, id) ==
    CHOOSE i \in DOMAIN seq :
        /\ seq[i].id = id
        /\ \A j \in DOMAIN seq : seq[j].id = id => j <= i

Collected(seq) ==
    [id \in { seq[i].id : i \in DOMAIN seq } |-> seq[LastIndexOf(seq, id)]]

\* The complete cache contents on either side of the replace under way, if any.
CompleteSnapshots ==
    IF ReplaceInProgress
      THEN { cache_before, Collected(response_value) }
      ELSE { applications }

get_all_applications ==
    /\ CacheReadable
    /\ \E from_swagger \in BOOLEAN :
        \E body \in GetAllBodies(applications, from_swagger) :
            http_response' = [op |-> "get_all", body |-> body,
                              snapshots |-> CompleteSnapshots]
    /\ UNCHANGED <<azure_api_token, applications, guards, cache_refresh_interval>>
    /\ UNCHANGED pure_vars
    /\ UNCHANGED token_vars
    /\ UNCHANGED apps_vars

\* The id asked for: one the collection holds at some times and not at others.
LookupIds == {"b"}

\* Faulty variant of get_application_by_id: an empty cache is reported as an error.
get_application_by_id_unready ==
    /\ CacheReadable
    /\ \E id \in LookupIds :
        http_response' = IF applications = EmptyMap
                           THEN [op |-> "get", id |-> id, status |-> 500]
                           ELSE IF id \in DOMAIN applications
                                  THEN [op |-> "get", id |-> id, status |-> 200,
                                        body |-> applications[id]]
                                  ELSE [op |-> "get", id |-> id, status |-> 404]
    /\ UNCHANGED <<azure_api_token, applications, guards, cache_refresh_interval>>
    /\ UNCHANGED pure_vars
    /\ UNCHANGED token_vars
    /\ UNCHANGED apps_vars

\* Faulty variant of get_application_by_id: the entry found is taken out of the map.
get_application_by_id_takes ==
    /\ CacheFree
    /\ \E id \in LookupIds :
        /\ http_response' = IF id \in DOMAIN applications
                              THEN [op |-> "get", id |-> id, status |-> 200,
                                    body |-> applications[id]]
                              ELSE [op |-> "get", id |-> id, status |-> 404]
        /\ applications' = [k \in (DOMAIN applications) \ {id} |-> applications[k]]
    /\ UNCHANGED <<azure_api_token, guards, cache_refresh_interval>>
    /\ UNCHANGED pure_vars
    /\ UNCHANGED token_vars
    /\ UNCHANGED apps_vars

get_application_by_id ==
    /\ CacheReadable
    /\ \E id \in LookupIds :
        http_response' = IF id \in DOMAIN applications
                           THEN [op |-> "get", id |-> id, status |-> 200,
                                 body |-> applications[id]]
                           ELSE [op |-> "get", id |-> id, status |-> 404]
    /\ UNCHANGED <<azure_api_token, applications, guards, cache_refresh_interval>>
    /\ UNCHANGED pure_vars
    /\ UNCHANGED token_vars
    /\ UNCHANGED apps_vars

Next ==
    \/ TokenStart
    \/ TokenReceive
    \/ TokenWake
    \/ AppsGate
    \/ AppsGateWake
    \/ AppsFetch
    \/ AppsReceive
    \/ AppsClear
    \/ AppsExtend
    \/ AppsReturnOk
    \/ AppsWake
    \/ get_all_applications
    \/ get_application_by_id

Spec == Init /\ [][Next]_vars

-----------------------------------------------------------------------------
(* The two loops against a server whose chain of next links need not end       *)

NextEndless ==
    \/ TokenStart
    \/ TokenReceive
    \/ TokenWake
    \/ AppsGate
    \/ AppsGateWake
    \/ AppsFetch
    \/ AppsReceiveEndless
    \/ AppsClear
    \/ AppsExtend
    \/ AppsReturnOk
    \/ AppsWake

\* Every request is answered or times out, every sleep ends, and each task is
\* scheduled when it can run.
FairnessEndless ==
    /\ WF_vars(TokenStart)
    /\ WF_vars(TokenReceive)
    /\ WF_vars(TokenWake)
    /\ WF_vars(AppsGate)
    /\ WF_vars(AppsGateWake)
    /\ WF_vars(AppsFetch)
    /\ WF_vars(AppsReceiveEndless)
    /\ WF_vars(AppsClear)
    /\ WF_vars(AppsExtend)
    /\ WF_vars(AppsReturnOk)
    /\ WF_vars(AppsWake)

SpecEndless == Init /\ [][NextEndless]_vars /\ FairnessEndless

-----------------------------------------------------------------------------
(* The two loops against a server that settles on a fixed collection           *)

\* The n-th page of a chain of MaxPages pages whose last page lists `last`.
ChainOf(last) ==
    [n \in 1..MaxPages |->
        IF n = MaxPages
          THEN last
          ELSE << [id |-> "a", app_id |-> "x", password_credentials |-> <<>>] >>]

\* The collections the server can settle on: every credential is well formed, with
\* an expiry, with null for it, or without the field.
FixedChains ==
    { ChainOf(<< [id |-> "a", app_id |-> "y", password_credentials |-> <<RawExpiring>>] >>),
      ChainOf(<< [id |-> "b", app_id |-> "x", password_credentials |-> <<RawLasting>>] >>),
      ChainOf(<< [id |-> "b", app_id |-> "x", password_credentials |-> <<RawFieldless>>] >>) }

InitSteady ==
    /\ ProgramStart
    /\ TypesIdle
    /\ GetAllIdle
    /\ SettingsIdle
    /\ collection \in FixedChains
    /\ steady = FALSE
    /\ Sound
    /\ applications_enabled = TRUE

\* From here on every renewal and every page request succeeds.
Settle ==
    /\ ~steady
    /\ steady' = TRUE
    /\ UNCHANGED collection
    /\ UNCHANGED <<types_vars, get_all_vars, settings_vars, fault_vars,
                   applications_enabled, clock_vars>>
    /\ UNCHANGED <<azure_api_token, applications, guards, cache_refresh_interval,
                   http_response>>
    /\ UNCHANGED token_vars
    /\ UNCHANGED apps_vars

\* The renewal request is answered; once the server has settled, with status 200 and
\* a token that is not empty.
TokenReceiveSteady ==
    /\ TokenReceive
    /\ steady => /\ token_response'.kind = "http"
                 /\ IsSuccess(token_response'.status)
                 /\ token_response'.body # Undecodable
                 /\ token_response'.body.access_token # ""

\* The page of the collection the url of the request in flight stands for.
RequestedPage == IF url = StartUrl THEN 1 ELSE url[2] + 1

\* The settled server answers a page request with status 200 and that page.
SteadyServerResponses ==
    { [kind |-> "http", status |-> 200,
       body |-> [next_link |-> IF RequestedPage < MaxPages
                                 THEN LinkAfter(RequestedPage)
                                 ELSE NoLink,
                 value |-> collection[RequestedPage]]] }

\* The page request is answered; once the server has settled, by the settled server.
AppsReceiveSteady ==
    AppsReceiveFrom(IF steady THEN SteadyServerResponses ELSE ServerResponses)

NextSteady ==
    \/ Settle
    \/ TokenStart
    \/ TokenReceiveSteady
    \/ TokenWake
    \/ AppsGate
    \/ AppsGateWake
    \/ AppsFetch
    \/ AppsReceiveSteady
    \/ AppsClear
    \/ AppsExtend
    \/ AppsReturnOk
    \/ AppsWake

\* Every request is answered, every sleep ends, and each task is scheduled when it
\* can run.
FairnessSteady ==
    /\ WF_vars(TokenStart)
    /\ WF_vars(TokenReceiveSteady)
    /\ WF_vars(TokenWake)
    /\ WF_vars(AppsGate)
    /\ WF_vars(AppsGateWake)
    /\ WF_vars(AppsFetch)
    /\ WF_vars(AppsReceiveSteady)
    /\ WF_vars(AppsClear)
    /\ WF_vars(AppsExtend)
    /\ WF_vars(AppsReturnOk)
    /\ WF_vars(AppsWake)

SpecSteady == InitSteady /\ [][NextSteady]_vars /\ FairnessSteady

-----------------------------------------------------------------------------
(* The two loops and a handler when a task fails while it holds a write guard  *)

Alive == process = "running"

\* The variables a panic of a task leaves alone, whatever it does to the task and
\* to the process.
beside_panic_vars ==
    <<azure_api_token, applications, guards, cache_refresh_interval, http_response,
      token_response, token_status, token_seconds, token_sleep, ever_renewed, url,
      bearer, response_value, parsed_applications, pages, cache_before, apps_status,
      applications_seconds, apps_sleep, applications_cached, malformed_received,
      types_vars, get_all_vars, settings_vars, steady_vars, poisoned,
      applications_enabled, clock_vars>>

\* Variant of LockPoisoned in which the panic ends the task that panicked and
\* nothing else, as a panic that unwinds inside a spawned task does.
LockPoisonedUnwinds(task) ==
    /\ process' = process
    /\ token_pc' = IF task = "azure_api_token_updater" THEN "panicked" ELSE token_pc
    /\ apps_pc' = IF task = "azure_applications_updater" THEN "panicked" ELSE apps_pc
    /\ UNCHANGED beside_panic_vars

\* What the panic of expect("lock poisoned") does: the process terminates.
LockPoisoned(task) ==
    /\ process' = "terminated"
    /\ UNCHANGED <<token_pc, apps_pc>>
    /\ UNCHANGED beside_panic_vars

\* read() or write() of a poisoned lock returns Err and expect("lock poisoned")
\* panics in the task that called it.
FindsPoisoned(task) ==
    /\ found' = found \cup {task}
    /\ LockPoisoned(task)

\* The token updater fails while it holds the write guard of the token: the guard
\* is dropped by the panic, which poisons the lock, and the task is gone.
TokenFaultInWrite ==
    /\ Alive
    /\ token_pc = "await"
    /\ TokenFree
    /\ token_pc' = "panicked"
    /\ poisoned' = poisoned \cup {"azure_api_token"}
    /\ UNCHANGED <<token_response, token_status, token_seconds, token_sleep,
                   ever_renewed>>
    /\ UNCHANGED <<azure_api_token, applications, guards, cache_refresh_interval,
                   http_response>>
    /\ UNCHANGED <<types_vars, get_all_vars, settings_vars, steady_vars, found, process,
                   applications_enabled, clock_vars>>
    /\ UNCHANGED apps_vars

\* The applications updater fails between clear() and the end of extend().
AppsFaultInWrite ==
    /\ Alive
    /\ apps_pc \in {"clear", "extend"}
    /\ apps_pc' = "panicked"
    /\ guards' = guards \ {CacheWriteGuard}
    /\ poisoned' = poisoned \cup {"applications"}
    /\ UNCHANGED <<url, bearer, response_value, parsed_applications, pages, cache_before,
                   apps_status, applications_seconds, apps_sleep, applications_cached,
                   malformed_received>>
    /\ UNCHANGED <<azure_api_token, applications, cache_refresh_interval, http_response>>
    /\ UNCHANGED <<types_vars, get_all_vars, settings_vars, steady_vars, found, process,
                   applications_enabled, clock_vars>>
    /\ UNCHANGED token_vars

\* The steps of the token updater; it takes no lock another task writes.
TokenStepAlive == Alive /\ (TokenStart \/ TokenReceive \/ TokenWake)

\* The steps of the applications updater that read the token.
AppsGateAlive ==
    /\ Alive
    /\ IF "azure_api_token" \in poisoned
         THEN apps_pc = "gate" /\ FindsPoisoned("azure_applications_updater")
         ELSE AppsGate

AppsFetchAlive ==
    /\ Alive
    /\ IF "azure_api_token" \in poisoned
         THEN apps_pc = "fetch" /\ FindsPoisoned("azure_applications_updater")
         ELSE AppsFetch

\* A response arrives: a page with a next link makes get_applications read the token.
AppsReceiveAlive ==
    /\ Alive
    /\ IF "azure_api_token" \in poisoned
         THEN \/ AppsReceive /\ apps_pc' # "await"
              \/ /\ apps_pc = "await"
                 /\ \E resp \in ServerResponses :
                       PageResultIsOk(resp) /\ Page(resp).next_link # NoLink
                 /\ FindsPoisoned("azure_applications_updater")
         ELSE AppsReceive

\* The steps of the applications updater that take no lock another task writes.
AppsStepAlive ==
    Alive /\ (AppsGateWake \/ AppsClear \/ AppsExtend \/ AppsReturnOk \/ AppsWake)

\* A handler of routes/applications.rs takes the read guard of a poisoned cache.
HandlerFindsPoisoned ==
    /\ Alive
    /\ "applications" \in poisoned
    /\ FindsPoisoned("handler")

NextFault ==
    \/ TokenFaultInWrite
    \/ AppsFaultInWrite
    \/ TokenStepAlive
    \/ AppsGateAlive
    \/ AppsFetchAlive
    \/ AppsReceiveAlive
    \/ AppsStepAlive
    \/ HandlerFindsPoisoned

SpecFault == Init /\ [][NextFault]_vars

-----------------------------------------------------------------------------
(* main with settings.applications.enabled true or false                       *)

InitMain ==
    /\ ProgramStart
    /\ TypesIdle
    /\ GetAllIdle
    /\ SettingsIdle
    /\ Unsettled
    /\ poisoned = {}
    /\ found = {}
    /\ process = "running"
    /\ Untimed
    /\ applications_enabled \in BOOLEAN

\* Faulty variant of TasksSpawned: main spawns the tasks whatever the setting.
TasksSpawnedAlways == TRUE

\* `if global_state.settings.applications.enabled { tokio::spawn(..); .. }`
TasksSpawned == applications_enabled

\* The steps of the two updaters, which exist if main spawned them.
TokenTask == TasksSpawned /\ (TokenStart \/ TokenReceive \/ TokenWake)

AppsTask ==
    /\ TasksSpawned
    /\ \/ AppsGate
       \/ AppsGateWake
       \/ AppsFetch
       \/ AppsReceive
       \/ AppsClear
       \/ AppsExtend
       \/ AppsReturnOk
       \/ AppsWake

\* The routes are served in either case.
NextMain ==
    \/ TokenTask
    \/ AppsTask
    \/ get_all_applications
    \/ get_application_by_id

SpecMain == InitMain /\ [][NextMain]_vars

----------------------------------------------------------------------------
(* Deserialization of a credential and remaining_seconds on their own        *)

\* The state of Init, with a JSON object of a credential about to be deserialized.
InitTypes ==
    /\ ProgramStart
    /\ raw_credential \in RawCredentials
    /\ credential = Unset
    /\ now = 0
    /\ remaining = Unset
    /\ GetAllIdle
    /\ SettingsIdle
    /\ Unsettled
    /\ Sound
    /\ applications_enabled = TRUE

\* The JSON object is deserialized into a PasswordCredential.
Deserialize ==
    /\ credential = Unset
    /\ credential' = DeserializePasswordCredential(raw_credential)
    /\ UNCHANGED <<raw_credential, now, remaining>>
    /\ UNCHANGED <<get_all_vars, settings_vars, steady_vars, fault_vars,
                   applications_enabled, clock_vars>>
    /\ UNCHANGED <<azure_api_token, applications, guards, cache_refresh_interval,
                   http_response>>
    /\ UNCHANGED token_vars
    /\ UNCHANGED apps_vars

\* remaining_seconds is called on the credential at some time.
remaining_seconds ==
    /\ credential # Unset
    /\ credential.ok
    /\ \E utc_now \in Nows :
          /\ now' = utc_now
          /\ remaining' = RemainingSeconds(credential.value, utc_now)
    /\ UNCHANGED <<raw_credential, credential>>
    /\ UNCHANGED <<get_all_vars, settings_vars, steady_vars, fault_vars,
                   applications_enabled, clock_vars>>
    /\ UNCHANGED <<azure_api_token, applications, guards, cache_refresh_interval,
                   http_response>>
    /\ UNCHANGED token_vars
    /\ UNCHANGED apps_vars

NextTypes == Deserialize \/ remaining_seconds

SpecTypes == InitTypes /\ [][NextTypes]_vars

-----------------------------------------------------------------------------
(* get_all_applications on caches of up to 52 entries                        *)

\* Cache sizes on either side of the limit of take(50).
CacheSizes == {0, 1, 49, 50, 51, 52}

\* An application of the directory with the given number.
NumberedApplication(n) == [id |-> n, app_id |-> n, password_credentials |-> <<>>]

\* A cache of `size` applications, keyed by id.
CacheOfSize(size) == [n \in 1..size |-> NumberedApplication(n)]

InitGetAll ==
    /\ ProgramStart
    /\ TypesIdle
    /\ SettingsIdle
    /\ Unsettled
    /\ Sound
    /\ applications_enabled = TRUE
    /\ big_cache \in { CacheOfSize(size) : size \in CacheSizes }
    /\ from_swagger_ui \in BOOLEAN
    /\ get_all_body = Unset

\* The handler answers a request on that cache.
GetAll ==
    /\ get_all_body = Unset
    /\ \E body \in GetAllBodies(big_cache, from_swagger_ui) :
        get_all_body' = Json(body)
    /\ UNCHANGED <<big_cache, from_swagger_ui>>
    /\ UNCHANGED <<types_vars, settings_vars, steady_vars, fault_vars,
                   applications_enabled, clock_vars>>
    /\ UNCHANGED <<azure_api_token, applications, guards, cache_refresh_interval,
                   http_response>>
    /\ UNCHANGED token_vars
    /\ UNCHANGED apps_vars

NextGetAll == GetAll

SpecGetAll == InitGetAll /\ [][NextGetAll]_vars

-----------------------------------------------------------------------------
(* settings/app_settings.rs, routes/settings.rs                              *)

\* Credential strings verify_credential_present lets through; one of the secrets
\* is the string of six asterisks itself.
TenantIds == {"tenant-1", "tenant-2"}
ClientIds == {"client-1", "client-2"}
ClientSecrets == {"secret-1", "secret-2", "secret-3", "******"}

Credentials == [tenant_id : TenantIds, client_id : ClientIds,
                client_secret : ClientSecrets]

\* Of the other sections, the two plain fields of Applications that
\* de_results_per_page and the bool allow to differ.
ResultsPerPage == {1, 999}

ApplicationsSettings == [enabled : BOOLEAN, results_per_page : ResultsPerPage]

Settings == [credentials : Credentials, applications : ApplicationsSettings]

\* Faulty variant of hide_client_secret: the value is serialized as it is.
show_client_secret(value) == value

\* serializer.serialize_str("******"), whatever the value.
hide_client_secret(value) == "******"

\* derive(Serialize) of Credentials, client_secret with hide_client_secret.
SerializeCredentials(credentials) ==
    [tenant_id |-> credentials.tenant_id,
     client_id |-> credentials.client_id,
     client_secret |-> hide_client_secret(credentials.client_secret)]

\* derive(Serialize) of Applications, for the fields modelled.
SerializeApplications(section) ==
    [enabled |-> section.enabled, results_per_page |-> section.results_per_page]

\* derive(Serialize) of Settings.
SerializeSettings(value) ==
    [credentials |-> SerializeCredentials(value.credentials),
     applications |-> SerializeApplications(value.applications)]

InitSettings ==
    /\ ProgramStart
    /\ TypesIdle
    /\ GetAllIdle
    /\ Unsettled
    /\ Sound
    /\ applications_enabled = TRUE
    /\ settings \in Settings
    /\ settings_json = Unset

show_settings ==
    /\ settings_json = Unset
    /\ settings_json' = Json(SerializeSettings(settings))
    /\ UNCHANGED settings
    /\ UNCHANGED <<types_vars, get_all_vars, steady_vars, fault_vars,
                   applications_enabled, clock_vars>>
    /\ UNCHANGED <<azure_api_token, applications, guards, cache_refresh_interval,
                   http_response>>
    /\ UNCHANGED token_vars
    /\ UNCHANGED apps_vars

NextSettings == show_settings

SpecSettings == InitSettings /\ [][NextSettings]_vars

----------------------------------------------------------------------------
(* Properties                                                               *)

RECURSIVE Fetched(_)
\* The resources of a sequence of pages, concatenated.
Fetched(ps) == IF ps = <<>> THEN <<>> ELSE Fetched(SubSeq(ps, 1, Len(ps) - 1)) \o ps[Len(ps)].value

\* C1: every get_all result is the complete cache contents before the replace under
\* way or the complete contents after it, never a cleared or partly refilled mapping.
C1_AtomicReplace ==
    http_response.op = "get_all" => http_response.body \in http_response.snapshots

\* The cache is cleared and not yet refilled while the last get_all answer is the
\* complete previous contents.
C1_Witness ==
    /\ ReplaceInProgress
    /\ applications \notin CompleteSnapshots
    /\ http_response.op = "get_all"
    /\ http_response.body = cache_before
    /\ cache_before # EmptyMap

\* C2: after a fetch cycle that failed, on its first page or on a later one, the
\* cache is what it was when the cycle began and can be read.
C2_FailedCycleKeepsCache ==
    (apps_pc = "sleep" /\ apps_status = "fail") =>
        /\ applications = cache_before
        /\ CacheReadable

\* A continuation page failed after a first page that carried resources, with a
\* cache that had been filled before.
C2_Witness ==
    /\ apps_pc = "sleep"
    /\ apps_status = "fail"
    /\ response_value # <<>>
    /\ applications # EmptyMap
    /\ applications # Collected(response_value)

\* C3: as long as no renewal has succeeded, the applications updater is in its wait
\* for the token and has sent no page request.
C3_TokenGating ==
    ~ever_renewed =>
        /\ apps_pc \in {"gate", "gate_sleep"}
        /\ url = NoLink
        /\ bearer = None
        /\ pages = <<>>

\* The applications updater sleeps in its wait after a renewal has failed.
C3_Witness ==
    /\ ~ever_renewed
    /\ token_status = "fail"
    /\ apps_pc = "gate_sleep"

\* C4: every page request in flight carries a non-empty token.
C4_BearerNeverEmpty ==
    apps_pc = "await" => bearer # ""

\* C5: a step that ends a renewal either stores the access_token of the response
\* and reports success, or leaves the token as it was and reports failure; no other
\* step changes the token.
C5_TokenAllOrNothing ==
    [][ IF token_pc = "await" /\ token_pc' = "sleep"
          THEN \/ /\ token_status' = "success"
                  /\ azure_api_token' = token_response'.body.access_token
               \/ /\ token_status' = "fail"
                  /\ azure_api_token' = azure_api_token
          ELSE azure_api_token' = azure_api_token ]_vars

\* A renewal has failed and the token of an earlier renewal is still in place.
C5_Witness ==
    /\ token_pc = "sleep"
    /\ token_status = "fail"
    /\ azure_api_token # ""

\* C6: after a successful fetch the cache is exactly the mapping id -> resource of
\* the fetched sequence.
C6_CacheIsFetchedMapping ==
    (apps_pc = "sleep" /\ apps_status = "success") =>
        applications = Collected(Fetched(pages))

\* A fetch of zero resources has emptied a cache that held entries.
C6_Witness ==
    /\ apps_pc = "sleep"
    /\ apps_status = "success"
    /\ Fetched(pages) = <<>>
    /\ cache_before # EmptyMap
    /\ applications = EmptyMap

\* C7: one fetch requests the start url and then the next link of each page in turn,
\* each once, accumulates the resources of all pages, and sends no request after
\* a page without a next link.
C7_PaginationComplete ==
    /\ \A i \in DOMAIN pages :
          pages[i].url = IF i = 1 THEN StartUrl ELSE pages[i - 1].next_link
    /\ \A i, j \in DOMAIN pages : i # j => pages[i].url # pages[j].url
    /\ \A i \in DOMAIN pages : i < Len(pages) => pages[i].next_link # NoLink
    /\ apps_pc = "await" =>
          /\ url = IF pages = <<>> THEN StartUrl ELSE pages[Len(pages)].next_link
          /\ url # NoLink
          /\ response_value = Fetched(pages)
    /\ apps_pc \in {"clear", "extend"} \/ (apps_pc = "sleep" /\ apps_status = "success") =>
          /\ pages # <<>>
          /\ pages[Len(pages)].next_link = NoLink
          /\ response_value = Fetched(pages)

\* A fetch of MaxPages pages, each with resources, has succeeded.
C7_Witness ==
    /\ apps_pc = "sleep"
    /\ apps_status = "success"
    /\ Len(pages) = MaxPages
    /\ \A i \in DOMAIN pages : pages[i].value # <<>>

\* The response of a renewal attempt that failed: a transport error, a timeout, a
\* status outside 2xx or a body that does not decode.
RenewalFailed(resp) ==
    \/ resp.kind \in {"transport", "timeout"}
    \/ /\ resp.kind = "http"
       /\ (resp.status \notin 200..299 \/ resp.body = Undecodable)

\* C8: after a renewal attempt that failed for any cause, the token loop sleeps the
\* 30 second failure interval.
C8_FailureBackoff ==
    (token_pc = "sleep" /\ RenewalFailed(token_response)) =>
        token_sleep = DurationFromSecs(FailureIntervalSecs)

\* C9 as stated: after a successful renewal reporting expires_in = E the token loop
\* sleeps exactly 90% of E, never the full E and never the failure interval.
C9_ProactiveRenewalAsStated ==
    (token_pc = "sleep" /\ token_status = "success") =>
        /\ token_sleep * 10 = DurationFromSecs(token_response.body.expires_in) * 9
        /\ token_sleep # DurationFromSecs(token_response.body.expires_in)
        /\ token_sleep # DurationFromSecs(FailureIntervalSecs)

\* C9: after a successful renewal reporting expires_in = E the token loop sleeps
\* exactly 90% of E, which is less than E unless E = 0, and never the failure
\* interval.
C9_ProactiveRenewal ==
    (token_pc = "sleep" /\ token_status = "success") =>
        /\ token_sleep * 10 = DurationFromSecs(token_response.body.expires_in) * 9
        /\ token_response.body.expires_in > 0 =>
              token_sleep < DurationFromSecs(token_response.body.expires_in)
        /\ token_sleep # DurationFromSecs(FailureIntervalSecs)

\* A renewal reporting expires_in = 1000 is followed by a sleep of 900 seconds.
C9_Witness ==
    /\ token_pc = "sleep"
    /\ token_status = "success"
    /\ token_response.body.expires_in = 1000
    /\ token_sleep = 900000

\* C10: the applications loop sleeps cache_refresh_interval after every cycle,
\* failed or not.
C10_FixedRefreshInterval ==
    apps_pc = "sleep" => apps_sleep = cache_refresh_interval

\* A failed cycle is followed by a sleep of cache_refresh_interval.
C10_Witness ==
    /\ apps_pc = "sleep"
    /\ apps_status = "fail"
    /\ apps_sleep = cache_refresh_interval
    /\ apps_sleep # DurationFromSecs(FailureIntervalSecs)

\* The steps of the token updater and of the applications updater.
TokenLoopStep == TokenStart \/ TokenReceive \/ TokenWake

AppsLoopStep ==
    AppsGate \/ AppsGateWake \/ AppsFetch \/ AppsReceive \/ AppsClear \/ AppsExtend
      \/ AppsReturnOk \/ AppsWake

\* C11: neither loop ever stops: in every state, whatever has failed before, each
\* loop has a next step, and the step after a sleep that follows a failure is the
\* next attempt.
C11_LoopsNeverStop ==
    /\ ENABLED TokenLoopStep
    /\ ENABLED AppsLoopStep
    /\ token_pc = "sleep" => ENABLED TokenWake
    /\ apps_pc = "sleep" => ENABLED AppsWake

\* Both loops sleep after a failure, a renewal having succeeded earlier.
C11_Witness ==
    /\ token_pc = "sleep"
    /\ token_status = "fail"
    /\ apps_pc = "sleep"
    /\ apps_status = "fail"

\* C12: a renewal answered with a status outside 2xx leaves the token as it was,
\* reports failure and is followed by the failure interval, whatever the body.
C12_Non2xxIsFailure ==
    [][ ( /\ token_pc = "await"
          /\ token_pc' = "sleep"
          /\ token_response'.kind = "http"
          /\ token_response'.status \notin 200..299 )
        => ( /\ azure_api_token' = azure_api_token
             /\ token_status' = "fail"
             /\ token_sleep' = DurationFromSecs(FailureIntervalSecs) ) ]_vars

\* C13: a cycle in which a page response had a status other than success is a failed
\* cycle that leaves the cache as it was, also when the body of that response
\* decodes as a page.
C13_NonSuccessPageFailsCycle ==
    (\E i \in DOMAIN pages : ~IsSuccess(pages[i].status))
        => /\ apps_pc = "sleep"
           /\ apps_status = "fail"
           /\ applications = cache_before

\* C14: a cycle in which some credential of some page carried an endDateTime that
\* does not parse is a failed cycle that leaves the cache as it was; no such
\* credential is accepted as one without expiry.
C14_MalformedTimestampFailsCycle ==
    malformed_received
        => /\ apps_pc = "sleep"
           /\ apps_status = "fail"
           /\ applications = cache_before

C14_Witness ==
    /\ malformed_received
    /\ apps_pc = "sleep"
    /\ Len(pages) = 1
    /\ cache_before # EmptyMap

\* C15: remaining_seconds of a credential whose expiry is before the time of the
\* call, by however little, is below zero.
C15_PastExpiryIsNegative ==
    ( /\ credential # Unset
      /\ credential.ok
      /\ remaining # Unset
      /\ credential.value.end_date_time # NoneDateTime
      /\ credential.value.end_date_time.some < now )
        => remaining.secs < 0

\* C16: remaining_seconds of a credential without expiry is +infinity whenever it
\* is called, and a credential is without expiry exactly when the endDateTime of
\* the object it was read from was null or left out.
C16_NoExpiryIsInfinite ==
    /\ ( /\ credential # Unset
         /\ credential.ok
         /\ remaining # Unset
         /\ credential.value.end_date_time = NoneDateTime )
           => remaining = Infinity
    /\ credential # Unset
           => ( (credential.ok /\ credential.value.end_date_time = NoneDateTime)
                  <=> raw_credential.end_date_time \in {JsonNull, Absent} )

\* C17: the expiry of a credential read from a well-formed endDateTime is the
\* instant that string denotes, whatever its UTC offset.
C17_TimestampRoundTrip ==
    ( /\ credential # Unset
      /\ raw_credential.end_date_time \in DateTimeStrings )
        => /\ credential.ok
           /\ credential.value.end_date_time =
                 Some(raw_credential.end_date_time.local - raw_credential.end_date_time.offset)

\* C18: at a network call or a sleep of a refresh loop that loop holds no guard,
\* read or write, on either lock: the write guard on the cache is out only between
\* the arrival of the last page and the return of inner(), and the write guard on
\* the token is taken and dropped between the arrival of the renewal response and
\* the sleep.
C18_NoGuardAcrossSuspension ==
    /\ guards \subseteq Guards
    /\ \A guard \in guards :
          /\ guard.task = "azure_api_token_updater" => token_pc \notin {"await", "sleep"}
          /\ guard.task = "azure_applications_updater"
                => apps_pc \notin {"gate_sleep", "await", "sleep"}
    /\ CacheWriteGuard \in guards
          => /\ apps_pc \in {"clear", "extend"}
             /\ pages # <<>>
             /\ pages[Len(pages)].next_link = NoLink

C18_Witness ==
    /\ guards = {}
    /\ token_pc = "sleep" /\ token_status = "success"
    /\ apps_pc = "sleep" /\ apps_status = "success"
    /\ Len(pages) = 2

\* C19: no task holds a guard on the token lock and a guard on the cache lock at
\* the same time.
C19_NeverBothLocks ==
    \A held \in guards : \A other \in guards :
        held.task = other.task => held.lock = other.lock

C19_Witness ==
    /\ CacheWriteGuard \in guards
    /\ Len(pages) = 2
    /\ bearer # None
    /\ token_pc = "await"

\* C20: the token changes only in the step in which a renewal succeeds, and the
\* cache only in the steps in which the applications updater stores a completed
\* fetch; a step of an HTTP handler and a step in which the applications updater
\* reads the token or the size of the cache change neither.
C20_SingleWriter ==
    [][ /\ azure_api_token' # azure_api_token
            => /\ token_pc = "await"
               /\ token_status' = "success"
               /\ UNCHANGED apps_pc
        /\ applications' # applications
            => /\ apps_pc \in {"clear", "extend"}
               /\ CacheWriteGuard \in guards
               /\ pages[Len(pages)].next_link = NoLink
               /\ UNCHANGED token_pc
        /\ http_response' # http_response
            => UNCHANGED <<azure_api_token, applications>>
        /\ (apps_pc \in {"gate", "fetch", "await", "sleep"} /\ apps_pc' # apps_pc)
            => UNCHANGED <<azure_api_token, applications>> ]_vars

C20_Witness ==
    /\ azure_api_token = "t2"
    /\ applications # EmptyMap
    /\ apps_pc = "sleep" /\ apps_status = "fail" /\ bearer = "t1"
    /\ http_response.op = "get"

\* C21: a lookup that returns answers with the entry the cache holds under the id at
\* that moment when the id is a key of the cache, and with 404 when it is not; with
\* the cache still empty the answer is 404.
C21_LookupMatchesCache ==
    [][ (http_response' # http_response /\ http_response'.op = "get")
          => /\ http_response'.id \in DOMAIN applications
                  => /\ http_response'.status = 200
                     /\ http_response'.body = applications[http_response'.id]
             /\ http_response'.id \notin DOMAIN applications
                  => http_response'.status = 404 ]_vars

C21_Witness ==
    /\ http_response.op = "get"
    /\ http_response.status = 200
    /\ http_response.id \in DOMAIN applications
    /\ http_response.body = applications[http_response.id]

-----------------------------------------------------------------------------
\* C23: without the from-swagger-ui marker the answer is the entire cache; with it the
\* answer is a sub-mapping of the cache with exactly min(50, cache size) entries.
C23_SwaggerTruncation ==
    get_all_body # Unset =>
        /\ ~from_swagger_ui => get_all_body.json = big_cache
        /\ from_swagger_ui =>
              /\ DOMAIN get_all_body.json \subseteq DOMAIN big_cache
              /\ \A id \in DOMAIN get_all_body.json :
                    get_all_body.json[id] = big_cache[id]
              /\ Cardinality(DOMAIN get_all_body.json)
                    = Min(50, Cardinality(DOMAIN big_cache))

C23_Witness ==
    /\ get_all_body # Unset
    /\ from_swagger_ui
    /\ Cardinality(DOMAIN big_cache) = 52
    /\ Cardinality(DOMAIN get_all_body.json) = 50

-----------------------------------------------------------------------------
\* Settings that differ from the given ones in nothing but the client secret.
SameButSecret(value) ==
    { other \in Settings :
        /\ other.credentials.tenant_id = value.credentials.tenant_id
        /\ other.credentials.client_id = value.credentials.client_id
        /\ other.applications = value.applications }

\* C24: the answer of show_settings shows "******" for the client secret and is the
\* same for any two settings that differ only in credentials.client_secret.
C24_SecretNeverShown ==
    settings_json # Unset =>
        /\ settings_json.json.credentials.client_secret = "******"
        /\ \A other \in SameButSecret(settings) :
              Json(SerializeSettings(other)) = settings_json

C24_Witness ==
    /\ settings_json # Unset
    /\ settings.credentials.client_secret = "secret-1"
    /\ settings_json.json.credentials.tenant_id = settings.credentials.tenant_id
    /\ settings_json.json.credentials.client_secret # "secret-1"

-----------------------------------------------------------------------------
\* C25: all page requests of one fetch cycle carry the same token, the one read when
\* the cycle began: a request that follows a page of the same cycle carries the
\* token the request before it carried, also when a renewal completed in between.
C25_OneTokenPerCycle ==
    [][ (apps_pc = "await" /\ apps_pc' = "await") => bearer' = bearer ]_vars

-----------------------------------------------------------------------------
\* C27: each loop alternates between running and sleeping. A loop goes to sleep only
\* from a cycle whose renewal or fetch has finished, and has taken its sleep decision
\* exactly when it sleeps; it leaves the sleep only by starting the next cycle, so
\* no cycle starts while one is in flight.
C27_PhasesAlternate ==
    [][ /\ (token_pc # "sleep" /\ token_pc' = "sleep")
              => /\ token_pc = "await"
                 /\ token_response' # NoResponse
        /\ (token_pc = "sleep" /\ token_pc' # "sleep")
              => /\ token_pc' = "await"
                 /\ token_response' = NoResponse
        /\ (token_pc' = "sleep") <=> (token_status' # None)
        /\ (apps_pc # "sleep" /\ apps_pc' = "sleep")
              => \/ apps_pc = "await" /\ apps_status' = "fail"
                 \/ /\ apps_pc = "extend" /\ apps_status' = "success"
                    /\ CacheWriteGuard \notin guards'
        /\ (apps_pc = "sleep" /\ apps_pc' # "sleep")
              => /\ apps_pc' = "fetch"
                 /\ pages' = <<>>
        /\ (apps_pc' = "sleep") <=> (apps_status' # None) ]_vars

\* Both loops are in a later cycle than their first, each with one request in flight.
C27_Witness ==
    /\ ever_renewed
    /\ token_pc = "await"
    /\ applications # EmptyMap
    /\ apps_pc = "await"
    /\ Len(pages) = 1

-----------------------------------------------------------------------------
\* The fetch cycle that ended went through to the page without a next link.
CycleWentThrough == pages # <<>> /\ pages[Len(pages)].next_link = NoLink

\* C28: a loop that sleeps after a cycle has recorded exactly one observation for that
\* cycle, labelled success exactly when the renewal was accepted (the fetch went
\* through to the last page and was stored) and fail otherwise; before the cycle has
\* finished, and during the wait for the first token, nothing is recorded.
C28_OneObservationPerCycle ==
    /\ token_pc = "sleep"
          => token_seconds
               = << IF TokenResultIsOk(token_response) THEN "success" ELSE "fail" >>
    /\ token_pc # "sleep" => token_seconds = <<>>
    /\ apps_pc = "sleep"
          => applications_seconds = << IF CycleWentThrough THEN "success" ELSE "fail" >>
    /\ apps_pc # "sleep" => applications_seconds = <<>>

C28_Witness ==
    /\ token_pc = "sleep"
    /\ token_seconds = <<"fail">>
    /\ ever_renewed
    /\ apps_pc = "sleep"
    /\ applications_seconds = <<"success">>
    /\ applications # EmptyMap

-----------------------------------------------------------------------------
\* C29: once past the wait for the first token, neither loop waits for the other: in
\* every state a renewal in flight can succeed and can fail, a sleeping token loop
\* can start the next renewal, a fetch cycle can begin, fail, go on to the next page
\* or to the swap, whatever the position of the other loop; and both handlers can
\* answer in every state outside the swap of the cache.
C29_LoopsIndependent ==
    /\ token_pc = "start" => ENABLED TokenStart
    /\ token_pc = "await"
          => /\ ENABLED (TokenReceive /\ token_status' = "success")
             /\ ENABLED (TokenReceive /\ token_status' = "fail")
    /\ token_pc = "sleep" => ENABLED TokenWake
    /\ apps_pc = "fetch" => ENABLED AppsFetch
    /\ apps_pc = "await"
          => /\ ENABLED (AppsReceive /\ apps_status' = "fail")
             /\ ENABLED (AppsReceive /\ apps_pc' \in {"await", "clear"})
    /\ apps_pc = "clear" => ENABLED AppsClear
    /\ apps_pc = "extend" => ENABLED (AppsExtend \/ AppsReturnOk)
    /\ apps_pc = "sleep" => ENABLED AppsWake
    /\ ~ReplaceInProgress
          => /\ ENABLED get_all_applications
             /\ ENABLED get_application_by_id

\* A fetch cycle is between two pages while the renewal after the first one is in
\* flight, and a handler has answered from the cache the cycle before it stored.
C29_Witness ==
    /\ ever_renewed
    /\ token_pc = "await"
    /\ apps_pc = "await"
    /\ Len(pages) = 1
    /\ applications # EmptyMap
    /\ http_response.op = "get_all"
    /\ http_response.body = applications

-----------------------------------------------------------------------------
\* C26 as stated: every fetch cycle, once its first request is sent, eventually ends
\* in the sleep of a finished cycle, whatever next links the server returns.
C26_CycleCompletes == (apps_pc = "await") ~> (apps_pc = "sleep")

\* The request in flight is for a page past the chain of MaxPages pages.
PastTheChain == apps_pc = "await" /\ url = LinkAfter(MaxPages)

\* C26: every fetch cycle, once its first request is sent, eventually ends in the
\* sleep of a finished cycle, unless the server goes on returning next links past
\* the end of the chain.
C26_FiniteChainCycleCompletes ==
    (apps_pc = "await") ~> (apps_pc = "sleep" \/ PastTheChain)

\* A cycle over the whole chain of MaxPages pages has ended.
C26_Witness ==
    /\ apps_pc = "sleep"
    /\ Len(pages) = MaxPages
    /\ pages[MaxPages].next_link = NoLink
    /\ apps_status = "success"

-----------------------------------------------------------------------------
\* The applications the pages 1..n of the settled collection list, in order.
RECURSIVE ChainValue(_)
ChainValue(n) == IF n = 0 THEN <<>> ELSE ChainValue(n - 1) \o collection[n]

\* The cache has one entry for each id of the settled collection, the application
\* the collection lists last under that id.
CacheHoldsCollection ==
    /\ DOMAIN applications = { ChainValue(MaxPages)[i].id : i \in 1..Len(ChainValue(MaxPages)) }
    /\ \A id \in DOMAIN applications :
          /\ applications[id].id = id
          /\ applications[id].app_id
                = ChainValue(MaxPages)[LastIndexOf(ChainValue(MaxPages), id)].app_id

\* C30: once every renewal and every page request succeeds and the collection is a
\* fixed chain of pages, the cache eventually holds that collection keyed by id, and
\* holds it from then on whenever it can be read.
C30_CacheConverges ==
    steady ~> [](CacheReadable => CacheHoldsCollection)

-----------------------------------------------------------------------------
-----------------------------------------------------------------------------
\* C32: in every state, the swap included, each entry of the cache is stored under
\* the id of its application, and a lookup that finds an entry answers with an
\* application of the id asked for.
C32_KeyedByOwnId ==
    /\ \A k \in DOMAIN applications : applications[k].id = k
    /\ (http_response.op = "get" /\ http_response.status = 200)
          => http_response.body.id = http_response.id

\* The cache holds two applications with the same app_id under their two ids, and a
\* lookup has found one of them.
C32_Witness ==
    /\ DOMAIN applications = {"a", "b"}
    /\ applications["a"].app_id = applications["b"].app_id
    /\ http_response.op = "get"
    /\ http_response.status = 200

-----------------------------------------------------------------------------
\* The ids of the applications a sequence lists.
IdsOf(seq) == { seq[i].id : i \in DOMAIN seq }

\* C33: after a successful fetch the cache holds, for each id fetched, the application
\* that came last under that id in the order of the pages, and nothing else; the
\* number of entries, which the loop reports, is the number of ids fetched.
C33_LastDuplicateWins ==
    (apps_pc = "sleep" /\ apps_status = "success") =>
        /\ DOMAIN applications = IdsOf(Fetched(pages))
        /\ \A i \in DOMAIN Fetched(pages) :
              (\A j \in DOMAIN Fetched(pages) :
                    j > i => Fetched(pages)[j].id # Fetched(pages)[i].id)
                 => applications[Fetched(pages)[i].id] = Fetched(pages)[i]
        /\ Cardinality(DOMAIN applications) = Cardinality(IdsOf(Fetched(pages)))
        /\ applications_cached = Cardinality(IdsOf(Fetched(pages)))

\* One id came on both pages of a successful fetch, three times in all, and the
\* cache holds the application that came last.
C33_Witness ==
    /\ apps_pc = "sleep"
    /\ apps_status = "success"
    /\ Len(pages) = 2
    /\ Len(Fetched(pages)) = 3
    /\ IdsOf(Fetched(pages)) = {"a"}
    /\ Fetched(pages)[1] # Fetched(pages)[3]
    /\ applications = [id \in {"a"} |-> Fetched(pages)[3]]

-----------------------------------------------------------------------------
\* C34: with settings.applications.enabled false no renewal request and no page
\* request is ever sent, the token and the cache stay empty, a lookup answers 404 and
\* get_all answers with the empty mapping.
C34_DisabledStaysEmpty ==
    ~applications_enabled =>
        /\ token_pc = "start" /\ token_response = NoResponse /\ ~ever_renewed
        /\ apps_pc = "gate" /\ url = NoLink /\ bearer = None /\ pages = <<>>
        /\ azure_api_token = ""
        /\ applications = EmptyMap
        /\ http_response.op = "get" => http_response.status = 404
        /\ http_response.op = "get_all" => http_response.body = EmptyMap

\* With the setting false a lookup has answered 404.
C34_Witness ==
    /\ ~applications_enabled
    /\ http_response.op = "get"
    /\ http_response.status = 404

----------------------------------------------------------------------------
(* The age of the shared token, when every renewal succeeds and takes less  *)
(* than 5% of the validity duration it reports                              *)

\* What `start.elapsed()` of an iteration of azure_api_token_updater can be, in
\* milliseconds.
RequestDurations == {0, 1000, 1649, 40000, 49999}

InitTimed ==
    /\ ProgramStart
    /\ TypesIdle
    /\ GetAllIdle
    /\ SettingsIdle
    /\ Unsettled
    /\ Sound
    /\ applications_enabled = TRUE

\* The first renewal request is sent; no token is stored yet.
TimedTokenStart ==
    /\ TokenStartStep
    /\ UNCHANGED clock_vars
    /\ UNCHANGED untimed_vars

\* The renewal request completes after `took` milliseconds with a token that was
\* issued when the request was sent or when the response was: the token held until
\* now has aged by `took`, and the new one is stored.
TimedTokenReceive ==
    /\ \E resp \in TokenResponses, took \in RequestDurations :
        /\ TokenResultIsOk(resp)
        /\ took * 20 < DurationFromSecs(resp.body.expires_in)
        /\ TokenReceiveResponse(resp)
        /\ \E issued_before \in {0, took} : token_age' = issued_before
        /\ token_valid_for' = DurationFromSecs(resp.body.expires_in)
        /\ replaced' = IF ever_renewed
                         THEN [age |-> token_age + took, valid_for |-> token_valid_for]
                         ELSE replaced
        /\ prompt' = (prompt /\ (ever_renewed => took * 20 < token_valid_for))
    /\ UNCHANGED untimed_vars

\* tokio::time::sleep(sleep_duration) ends and the next renewal request is sent: the
\* token has aged by the sleep.
TimedTokenWake ==
    /\ TokenWakeStep
    /\ token_age' = token_age + token_sleep
    /\ UNCHANGED <<token_valid_for, replaced, prompt>>
    /\ UNCHANGED untimed_vars

NextTimed ==
    \/ TimedTokenStart
    \/ TimedTokenReceive
    \/ TimedTokenWake

SpecTimed == InitTimed /\ [][NextTimed]_vars

\* The token stored is younger than its validity at the start and at the end of the
\* sleep, and the token replaced last was younger than its validity up to the moment
\* it was replaced.
Unexpired ==
    /\ token_age < token_valid_for
    /\ replaced # Unset => replaced.age < replaced.valid_for

\* C31 as stated: when every renewal succeeds and takes less than 5% of the validity
\* duration it reports, the shared token is, at every moment after the first
\* successful renewal, younger than the validity duration it was issued for.
C31_TokenNeverExpired == ever_renewed => Unexpired

\* C31: when every renewal succeeds and takes less than 5% of the validity duration
\* it reports and less than 5% of the validity duration of the token it replaces,
\* the shared token is, at every moment after the first successful renewal, younger
\* than the validity duration it was issued for.
C31_TokenNeverExpiredWhenPrompt == (ever_renewed /\ prompt) => Unexpired

\* A token valid for 33 s was held through its sleep of 29.7 s and through a renewal
\* that took 1.649 s, and was replaced by a token valid for 1000 s.
C31_Witness ==
    /\ ever_renewed
    /\ prompt
    /\ replaced # Unset
    /\ replaced.valid_for = 33000
    /\ replaced.age = 1649 + 29700 + 1649
    /\ token_valid_for = 1000000
    /\ token_pc = "sleep"

====
